---- MODULE Spec2Model ----
(***************************************************************************)
(* Job lifecycle of the strawberryfields remote API client:                *)
(*   strawberryfields/api/job.py         JobStatus, Job                    *)
(*   strawberryfields/api/connection.py  Connection                        *)
(* One Job object, the Connection objects of the program, and the remote   *)
(* platform as the environment: every request receives a response drawn    *)
(* from the set of responses the platform can send.                        *)
(***************************************************************************)
EXTENDS Integers, Sequences, FiniteSets, TLC

VARIABLES
    job,            \* the Job object
    last,           \* the last operation, the Job before it, how it ended
    calls,          \* the requests of the last operation and their responses
    resultFetches,  \* result requests made for the Job so far
    reported,       \* the status the platform last reported for the Job
    server,         \* the status of the job on the platform
    threads         \* the refresh() calls running on the Job concurrently

vars == <<job, last, calls, resultFetches, reported, server, threads>>

----------------------------------------------------------------------------
(* Bounds *)

NumIds == 2          \* distinct job ids
MaxShots == 2        \* rows of a samples array

----------------------------------------------------------------------------
(* HTTP status codes the Connection compares against *)

HTTP_OK == 200
HTTP_CREATED == 201
HTTP_NO_CONTENT == 204

ErrorCodes == {404, 500}
StatusCodes == {HTTP_OK, HTTP_CREATED, HTTP_NO_CONTENT} \cup ErrorCodes

Ids == 1..NumIds

\* the Connection objects of the program
Connections == {"connection_a", "connection_b"}

\* columns of a samples array, and the values of its entries
Modes == 1..2
Photons == 0..1

----------------------------------------------------------------------------
(* JobStatus *)

OPEN == "open"
QUEUED == "queued"
CANCELLED == "cancelled"
COMPLETED == "complete"
FAILED == "failed"

JobStatus == {OPEN, QUEUED, CANCELLED, COMPLETED, FAILED}

\* a status string the enumeration does not know
StatusStrings == JobStatus \cup {"bogus"}

is_final(status) == status \in {CANCELLED, COMPLETED, FAILED}

----------------------------------------------------------------------------
(* Values *)

None == [tag |-> "None"]

Result(samples, is_stateful) ==
    [tag |-> "Result", samples |-> samples, is_stateful |-> is_stateful]

\* Job.__init__: the id, the status and the connection are stored as given,
\* the result starts as None whatever the status
Job(id_, status, connection) ==
    [id |-> id_, status |-> status, connection |-> connection,
     result |-> None]

\* no Job object has been built yet
NoJob == [id |-> 0, status |-> "nojob", connection |-> "none", result |-> None]

----------------------------------------------------------------------------
(* Requests and responses *)

Request(method, path, id) == [method |-> method, path |-> path, id |-> id]

\* the fields an error body can carry
ErrorFields == {"status_code", "code", "detail"}

FullError == [status_code |-> 500, code |-> "E1", detail |-> "boom"]

\* JSON error bodies: every field is optional
ErrorDocs == {[k \in S |-> FullError[k]] : S \in SUBSET ErrorFields}

\* a JSON body with none of the error fields
NoFields == [k \in {} |-> ""]

\* response to POST /jobs and GET /jobs/{id}: status code and body.  The
\* body is a JSON job document (id, status), a JSON error document, or text
\* that is not JSON (an empty body, an HTML error page)
JobResponses ==
    [status_code : StatusCodes, doc : {"job"}, id : Ids,
     status : StatusStrings, error : {NoFields}]
    \cup
    [status_code : StatusCodes, doc : {"error"}, id : {0},
     status : {""}, error : ErrorDocs]
    \cup
    [status_code : StatusCodes, doc : {"text"}, id : {0},
     status : {""}, error : {NoFields}]

\* flat data of r*c entries
RECURSIVE FlatData(_)
FlatData(n) ==
    IF n = 0 THEN {<<>>}
    ELSE {Append(d, v) : d \in FlatData(n - 1), v \in Photons}

\* a well-formed binary payload: magic string, shape, flat data
NpyBlobs ==
    UNION {
        {[magic |-> "NUMPY", rows |-> r, cols |-> c, data |-> d] :
            d \in FlatData(r * c)} :
        r \in 1..MaxShots, c \in {Cardinality(Modes)}}

\* a payload np.load cannot read
JunkBlob == [magic |-> "junk", rows |-> 1, cols |-> 1, data |-> <<0>>]

\* body of the response to GET /jobs/{id}/result
Blobs == NpyBlobs \cup {JunkBlob}

\* response to GET /jobs/{id}/result: binary content under 200; under
\* every other code a JSON error document or text that is not JSON
ResultResponses ==
    [status_code : {HTTP_OK}, doc : {"npy"}, content : Blobs,
     error : {NoFields}]
    \cup
    [status_code : StatusCodes \ {HTTP_OK}, doc : {"error"},
     content : {JunkBlob}, error : ErrorDocs]
    \cup
    [status_code : StatusCodes \ {HTTP_OK}, doc : {"text"},
     content : {JunkBlob}, error : {NoFields}]

\* response to PATCH /jobs/{id}: a JSON error document, or a body that is
\* not JSON (a 204 has no body at all)
CancelResponses ==
    [status_code : StatusCodes, doc : {"error"}, error : ErrorDocs]
    \cup
    [status_code : StatusCodes, doc : {"text"}, error : {NoFields}]

\* response to GET /healthz
PingResponses == [status_code : StatusCodes]

\* np.load: rebuilds the rows x cols array from the flat data
NpLoad(blob) ==
    [r \in 1..blob.rows |->
        [c \in 1..blob.cols |-> blob.data[(r - 1) * blob.cols + c]]]

\* a request sent by the Connection self, and the response it received
Exchange(self, req, resp) == [conn |-> self, req |-> req, resp |-> resp]

----------------------------------------------------------------------------
(* Connection *)

Returned(v, ex) == [exc |-> "none", ret |-> v, msg |-> "", calls |-> ex]
Raised(e, ex) == [exc |-> e, ret |-> None, msg |-> "", calls |-> ex]

\* raise RequestFailedError(msg)
Failed(msg, ex) ==
    [exc |-> "RequestFailedError", ret |-> None, msg |-> msg, calls |-> ex]

\* body.get(k, ""), as "{}".format prints it
FieldText(body, k) ==
    IF k \in DOMAIN body
    THEN IF k = "status_code" THEN ToString(body[k]) ELSE body[k]
    ELSE ""

\* the fields printed in another order
format_error_message_swapped(resp) ==
    IF resp.doc = "text"
    THEN Raised("JSONDecodeError", <<>>)
    ELSE Returned(FieldText(resp.error, "code") \o " ("
                      \o FieldText(resp.error, "status_code") \o "): "
                      \o FieldText(resp.error, "detail"), <<>>)

\* Connection._format_error_message: response.json() raises when the body
\* is not JSON, otherwise the three fields are printed
format_error_message(resp) ==
    IF resp.doc = "text"
    THEN Raised("JSONDecodeError", <<>>)
    ELSE Returned(FieldText(resp.error, "status_code") \o " ("
                      \o FieldText(resp.error, "code") \o "): "
                      \o FieldText(resp.error, "detail"), <<>>)

\* raise RequestFailedError(prefix.format(self._format_error_message(response))):
\* the message is built first, and what building it raises is what escapes
RaiseRequestFailed(prefix, resp, ex) ==
    LET m == format_error_message(resp)
    IN  IF m.exc # "none"
        THEN Raised(m.exc, ex)
        ELSE Failed(prefix \o m.ret, ex)

\* Connection.create_job: response.json()["id"], then
\* JobStatus(response.json()["status"]), then Job(..., connection=self)
create_job(self, resp) ==
    LET ex == <<Exchange(self, Request("POST", "/jobs", 0), resp)>>
    IN  IF resp.status_code = HTTP_CREATED
        THEN IF resp.doc = "text"
             THEN Raised("JSONDecodeError", ex)
             ELSE IF resp.doc # "job"
                  THEN Raised("KeyError", ex)
                  ELSE IF resp.status \in JobStatus
                       THEN Returned(Job(resp.id, resp.status, self), ex)
                       ELSE Raised("ValueError", ex)
        ELSE RaiseRequestFailed("Failed to create job: ", resp, ex)

\* Connection.get_job
get_job(self, job_id, resp) ==
    LET ex == <<Exchange(self, Request("GET", "/jobs/{}", job_id), resp)>>
    IN  IF resp.status_code = HTTP_OK
        THEN IF resp.doc = "text"
             THEN Raised("JSONDecodeError", ex)
             ELSE IF resp.doc # "job"
                  THEN Raised("KeyError", ex)
                  ELSE IF resp.status \in JobStatus
                       THEN Returned(Job(resp.id, resp.status, self), ex)
                       ELSE Raised("ValueError", ex)
        ELSE RaiseRequestFailed("Failed to get job: ", resp, ex)

\* Connection.get_job_status
get_job_status(self, job_id, resp) ==
    LET r == get_job(self, job_id, resp)
    IN  IF r.exc = "none" THEN Returned(r.ret.status, r.calls) ELSE r

\* Connection.get_job_result
get_job_result(self, job_id, resp) ==
    LET ex == <<Exchange(self, Request("GET", "/jobs/{}/result", job_id),
                         resp)>>
    IN  IF resp.status_code = HTTP_OK
        THEN IF resp.content.magic = "NUMPY"
             THEN Returned(Result(NpLoad(resp.content), FALSE), ex)
             ELSE Raised("ValueError", ex)
        ELSE RaiseRequestFailed("Failed to get job result: ", resp, ex)

\* every 2xx code taken for a success
cancel_job_any_2xx(self, job_id, resp) ==
    LET ex == <<Exchange(self, Request("PATCH", "/jobs/{}", job_id), resp)>>
    IN  IF resp.status_code \in {HTTP_OK, HTTP_CREATED, HTTP_NO_CONTENT}
        THEN Returned(None, ex)
        ELSE RaiseRequestFailed("Failed to cancel job: ", resp, ex)

\* Connection.cancel_job
cancel_job(self, job_id, resp) ==
    LET ex == <<Exchange(self, Request("PATCH", "/jobs/{}", job_id), resp)>>
    IN  IF resp.status_code = HTTP_NO_CONTENT
        THEN Returned(None, ex)
        ELSE RaiseRequestFailed("Failed to cancel job: ", resp, ex)

\* ping raising on a failed probe, as the other operations do
ping_raising(self, resp) ==
    LET ex == <<Exchange(self, Request("GET", "/healthz", 0), resp)>>
    IN  IF resp.status_code = HTTP_OK
        THEN Returned(TRUE, ex)
        ELSE Failed("Failed to ping", ex)

\* Connection.ping
ping(self, resp) ==
    LET ex == <<Exchange(self, Request("GET", "/healthz", 0), resp)>>
    IN  Returned(resp.status_code = HTTP_OK, ex)

----------------------------------------------------------------------------
(* Job *)

Outcome(j, exc, ret, ex) == [job |-> j, exc |-> exc, ret |-> ret, calls |-> ex]

\* the property without its status check
result_unchecked(j) == Returned(j.result, <<>>)

\* Job.result property
result(j) ==
    IF j.status # COMPLETED
    THEN Raised("AttributeError", <<>>)
    ELSE Returned(j.result, <<>>)

\* the result fetched for every final status instead of COMPLETED only
refresh_fetch_on_final(j, statusResp, resultResp) ==
    LET s == get_job_status(j.connection, j.id, statusResp)
    IN  IF s.exc # "none"
        THEN Outcome(j, s.exc, None, s.calls)
        ELSE LET j1 == [j EXCEPT !.status = s.ret]
             IN  IF is_final(j1.status)
                 THEN LET r == get_job_result(j1.connection, j1.id, resultResp)
                      IN  IF r.exc # "none"
                          THEN Outcome(j1, r.exc, None, s.calls \o r.calls)
                          ELSE Outcome([j1 EXCEPT !.result = r.ret],
                                       "none", None, s.calls \o r.calls)
                 ELSE Outcome(j1, "none", None, s.calls)

\* Job.refresh past the is_final check: the status is assigned as soon as it
\* is fetched, before the result is requested, so an exception raised by
\* get_job_result leaves the new status in place
refresh_fetch(j, statusResp, resultResp) ==
    LET s == get_job_status(j.connection, j.id, statusResp)
    IN  IF s.exc # "none"
        THEN Outcome(j, s.exc, None, s.calls)
        ELSE LET j1 == [j EXCEPT !.status = s.ret]
             IN  IF j1.status = COMPLETED
                 THEN LET r == get_job_result(j1.connection, j1.id, resultResp)
                      IN  IF r.exc # "none"
                          THEN Outcome(j1, r.exc, None, s.calls \o r.calls)
                          ELSE Outcome([j1 EXCEPT !.result = r.ret],
                                       "none", None, s.calls \o r.calls)
                 ELSE Outcome(j1, "none", None, s.calls)

\* refresh without the is_final check
refresh_ungated(j, statusResp, resultResp) ==
    refresh_fetch(j, statusResp, resultResp)

\* refresh raising on a final job, as cancel does
refresh_raising(j, statusResp, resultResp) ==
    IF is_final(j.status)
    THEN Outcome(j, "InvalidJobOperationError", None, <<>>)
    ELSE refresh_fetch(j, statusResp, resultResp)

\* Job.refresh: a final job is only logged, nothing is raised
refresh(j, statusResp, resultResp) ==
    IF is_final(j.status)
    THEN Outcome(j, "none", None, <<>>)
    ELSE refresh_fetch(j, statusResp, resultResp)

\* cancel without the is_final check
cancel_ungated(j, resp) ==
    LET c == cancel_job(j.connection, j.id, resp)
    IN  Outcome(j, c.exc, None, c.calls)

\* cancel marking the job cancelled as soon as the request succeeds
cancel_optimistic(j, resp) ==
    IF is_final(j.status)
    THEN Outcome(j, "InvalidJobOperationError", None, <<>>)
    ELSE LET c == cancel_job(j.connection, j.id, resp)
         IN  IF c.exc = "none"
             THEN Outcome([j EXCEPT !.status = CANCELLED], c.exc, None, c.calls)
             ELSE Outcome(j, c.exc, None, c.calls)

\* Job.cancel
cancel(j, resp) ==
    IF is_final(j.status)
    THEN Outcome(j, "InvalidJobOperationError", None, <<>>)
    ELSE LET c == cancel_job(j.connection, j.id, resp)
         IN  Outcome(j, c.exc, None, c.calls)

----------------------------------------------------------------------------
(* State machine *)

\* the message of the exception raised, and a returned bool, as recorded
Message(text) == [tag |-> "Message", text |-> text]
Boolean(b) == [tag |-> "bool", value |-> b]

\* what the last operation was, the Job before it, and how it ended
Last(op, pre, exc, ret) == [op |-> op, pre |-> pre, exc |-> exc, ret |-> ret]

\* the result requests among the exchanges ex
ResultRequests(ex) ==
    Cardinality({i \in 1..Len(ex) : ex[i].req.path = "/jobs/{}/result"})

\* n + k, counted up to "three or more"
Bump(n, k) == IF n + k > 3 THEN 3 ELSE n + k

\* whether the response carries a job document with a status of the
\* enumeration under the code c
Reports(resp, c) ==
    /\ resp.status_code = c
    /\ resp.doc = "job"
    /\ resp.status \in JobStatus

Threads == {1, 2}

\* a refresh() call that has not started
Idle == [pc |-> "idle", status |-> "", result |-> None]

Init ==
    /\ job = NoJob
    /\ last = Last("init", NoJob, "none", None)
    /\ calls = <<>>
    /\ resultFetches = 0
    /\ reported = "none"
    /\ server = OPEN
    /\ threads = [t \in Threads |-> Idle]

\* Job("abc", status=..., connection=connection), as the tests build it
JobInit ==
    /\ job = NoJob
    /\ \E id_ \in Ids, status \in JobStatus, connection \in Connections :
        /\ job' = Job(id_, status, connection)
        /\ last' = Last("Job", job, "none", None)
        /\ calls' = <<>>
        /\ UNCHANGED <<resultFetches, reported, server, threads>>

CreateJob ==
    /\ job = NoJob
    /\ \E self \in Connections, resp \in JobResponses :
        LET o == create_job(self, resp)
        IN  /\ job' = IF o.exc = "none" THEN o.ret ELSE job
            /\ last' = Last("create_job", job, o.exc, Message(o.msg))
            /\ calls' = o.calls
            /\ reported' = IF Reports(resp, HTTP_CREATED)
                           THEN resp.status ELSE reported
            /\ UNCHANGED <<resultFetches, server, threads>>

GetJob ==
    /\ job = NoJob
    /\ \E self \in Connections, job_id \in Ids, resp \in JobResponses :
        LET o == get_job(self, job_id, resp)
        IN  /\ job' = IF o.exc = "none" THEN o.ret ELSE job
            /\ last' = Last("get_job", job, o.exc, Message(o.msg))
            /\ calls' = o.calls
            /\ reported' = IF Reports(resp, HTTP_OK)
                           THEN resp.status ELSE reported
            /\ UNCHANGED <<resultFetches, server, threads>>

NoResultResponse ==
    [status_code |-> HTTP_OK, doc |-> "npy", content |-> JunkBlob,
     error |-> NoFields]

\* the responses the result endpoint can give to this refresh(): any of
\* them when the call reaches the result request, and nothing to choose
\* when it does not
ResultAnswers(j, statusResp) ==
    IF Len(refresh(j, statusResp, NoResultResponse).calls) = 2
    THEN ResultResponses
    ELSE {NoResultResponse}

NoJobResponse ==
    [status_code |-> HTTP_OK, doc |-> "error", id |-> 0, status |-> "",
     error |-> NoFields]

\* the responses the status endpoint can give to this refresh(): nothing to
\* choose when the call makes no request; otherwise any of them, a job
\* document being the document of the job asked for (get_job_status reads
\* the status of the document and drops the rest)
StatusAnswers(j) ==
    IF refresh(j, NoJobResponse, NoResultResponse).calls = <<>>
    THEN {NoJobResponse}
    ELSE {r \in JobResponses : r.doc = "job" => r.id = j.id}

Refresh ==
    /\ job # NoJob
    /\ \E statusResp \in StatusAnswers(job) :
       \E resultResp \in ResultAnswers(job, statusResp) :
        LET o == refresh(job, statusResp, resultResp)
        IN  /\ job' = o.job
            /\ last' = Last("refresh", job, o.exc, o.ret)
            /\ calls' = o.calls
            /\ resultFetches' = Bump(resultFetches, ResultRequests(o.calls))
            /\ reported' = IF o.calls # <<>> /\ Reports(statusResp, HTTP_OK)
                           THEN statusResp.status ELSE reported
            /\ UNCHANGED <<server, threads>>

Cancel ==
    /\ job # NoJob
    /\ \E resp \in CancelResponses :
        LET o == cancel(job, resp)
        IN  /\ job' = o.job
            /\ last' = Last("cancel", job, o.exc, o.ret)
            /\ calls' = o.calls
            /\ UNCHANGED <<resultFetches, reported, server, threads>>

ReadResult ==
    /\ job # NoJob
    /\ LET o == result(job)
       IN  /\ job' = job
           /\ last' = Last("result", job, o.exc, o.ret)
           /\ calls' = <<>>
           /\ UNCHANGED <<resultFetches, reported, server, threads>>

Next ==
    \/ JobInit
    \/ CreateJob
    \/ GetJob
    \/ Refresh
    \/ Cancel
    \/ ReadResult

Spec == Init /\ [][Next]_vars

----------------------------------------------------------------------------
(* The Connection called directly: every operation on every response *)

\* create_job and get_job called for their outcome, the Job not kept
CallCreateJob ==
    \E self \in Connections, resp \in JobResponses :
        LET o == create_job(self, resp)
        IN  /\ last' = Last("create_job", job, o.exc, Message(o.msg))
            /\ calls' = o.calls
            /\ UNCHANGED <<job, resultFetches, reported, server, threads>>

CallGetJob ==
    \E self \in Connections, job_id \in Ids, resp \in JobResponses :
        LET o == get_job(self, job_id, resp)
        IN  /\ last' = Last("get_job", job, o.exc, Message(o.msg))
            /\ calls' = o.calls
            /\ UNCHANGED <<job, resultFetches, reported, server, threads>>

GetJobStatus ==
    \E self \in Connections, job_id \in Ids, resp \in JobResponses :
        LET o == get_job_status(self, job_id, resp)
        IN  /\ last' = Last("get_job_status", job, o.exc, Message(o.msg))
            /\ calls' = o.calls
            /\ UNCHANGED <<job, resultFetches, reported, server, threads>>

GetJobResult ==
    \E self \in Connections, job_id \in Ids, resp \in ResultResponses :
        LET o == get_job_result(self, job_id, resp)
        IN  /\ last' = Last("get_job_result", job, o.exc, Message(o.msg))
            /\ calls' = o.calls
            /\ UNCHANGED <<job, resultFetches, reported, server, threads>>

CancelJob ==
    \E self \in Connections, job_id \in Ids, resp \in CancelResponses :
        LET o == cancel_job(self, job_id, resp)
        IN  /\ last' = Last("cancel_job", job, o.exc, Message(o.msg))
            /\ calls' = o.calls
            /\ UNCHANGED <<job, resultFetches, reported, server, threads>>

Ping ==
    \E self \in Connections, resp \in PingResponses :
        LET o == ping(self, resp)
        IN  /\ last' = Last("ping", job, o.exc, Boolean(o.ret))
            /\ calls' = o.calls
            /\ UNCHANGED <<job, resultFetches, reported, server, threads>>

ConnNext ==
    \/ CallCreateJob
    \/ CallGetJob
    \/ GetJobStatus
    \/ GetJobResult
    \/ CancelJob
    \/ Ping

ConnSpec == Init /\ [][ConnNext]_vars

----------------------------------------------------------------------------
(* A caller polling a job on a platform that answers every request with    *)
(* success and with the job's true status                                  *)

\* the platform's answer to POST /jobs and GET /jobs/{id} for the job id_
TrueJobResponse(code, id_) ==
    [status_code |-> code, doc |-> "job", id |-> id_, status |-> server,
     error |-> NoFields]

\* the platform's answer to GET /jobs/{id}/result
TrueResultResponses ==
    [status_code : {HTTP_OK}, doc : {"npy"}, content : NpyBlobs,
     error : {NoFields}]

\* the job moves on: open, then queued, then one of the final statuses
ServerAdvance ==
    /\ server \in {OPEN, QUEUED}
    /\ server' \in {QUEUED, CANCELLED, COMPLETED, FAILED} \ {server}
    /\ UNCHANGED <<job, last, calls, resultFetches, reported, threads>>

LiveCreateJob ==
    /\ job = NoJob
    /\ server \in {OPEN, QUEUED}
    /\ \E self \in Connections, id_ \in Ids :
        LET resp == TrueJobResponse(HTTP_CREATED, id_)
            o == create_job(self, resp)
        IN  /\ job' = IF o.exc = "none" THEN o.ret ELSE job
            /\ last' = Last("create_job", job, o.exc, Message(o.msg))
            /\ calls' = o.calls
            /\ reported' = resp.status
            /\ UNCHANGED <<resultFetches, server, threads>>

LiveGetJob ==
    /\ job = NoJob
    /\ \E self \in Connections, job_id \in Ids :
        LET resp == TrueJobResponse(HTTP_OK, job_id)
            o == get_job(self, job_id, resp)
        IN  /\ job' = IF o.exc = "none" THEN o.ret ELSE job
            /\ last' = Last("get_job", job, o.exc, Message(o.msg))
            /\ calls' = o.calls
            /\ reported' = resp.status
            /\ UNCHANGED <<resultFetches, server, threads>>

LiveRefresh ==
    /\ job # NoJob
    /\ \E resultResp \in TrueResultResponses :
        LET statusResp == TrueJobResponse(HTTP_OK, job.id)
            o == refresh(job, statusResp, resultResp)
        IN  /\ job' = o.job
            /\ last' = Last("refresh", job, o.exc, o.ret)
            /\ calls' = o.calls
            /\ resultFetches' = Bump(resultFetches, ResultRequests(o.calls))
            /\ reported' = IF o.calls # <<>> THEN statusResp.status
                           ELSE reported
            /\ UNCHANGED <<server, threads>>

LiveNext ==
    \/ ServerAdvance
    \/ LiveCreateJob
    \/ LiveGetJob
    \/ LiveRefresh

\* the job does reach a final status, and the caller keeps calling refresh()
LiveSpec ==
    /\ Init
    /\ [][LiveNext]_vars
    /\ WF_vars(ServerAdvance)
    /\ WF_vars(LiveRefresh)

----------------------------------------------------------------------------
(* Two refresh() calls on one Job, interleaved step by step.  Each call     *)
(* keeps what it fetched in a local until it writes it to the Job.          *)

\* the result responses of this specification: the payloads of one shot,
\* an unreadable payload, and the error responses
OneShotResultResponses ==
    {r \in ResultResponses : r.content.rows = 1}

\* thread t moves to pc
Goto(t, pc) == [threads EXCEPT ![t].pc = pc]

\* a refresh() that goes on to fetch whatever the status is
RefreshCheck_ungated(t) ==
    /\ job # NoJob
    /\ threads[t].pc = "idle"
    /\ threads' = Goto(t, "fetch_status")
    /\ UNCHANGED <<job, last, calls, resultFetches, reported, server>>

\* if self.status.is_final: log.warning(...); return
RefreshCheck(t) ==
    /\ job # NoJob
    /\ threads[t].pc = "idle"
    /\ threads' = Goto(t, IF is_final(job.status)
                          THEN "done" ELSE "fetch_status")
    /\ UNCHANGED <<job, last, calls, resultFetches, reported, server>>

\* self._connection.get_job_status(self.id), the value not yet stored
FetchStatus(t) ==
    /\ threads[t].pc = "fetch_status"
    /\ \E resp \in JobResponses :
        LET s == get_job_status(job.connection, job.id, resp)
        IN  threads' = IF s.exc # "none"
                       THEN Goto(t, "done")
                       ELSE [threads EXCEPT ![t].pc = "write_status",
                                            ![t].status = s.ret]
    /\ UNCHANGED <<job, last, calls, resultFetches, reported, server>>

\* self._status = <the status fetched>
WriteStatus(t) ==
    /\ threads[t].pc = "write_status"
    /\ job' = [job EXCEPT !.status = threads[t].status]
    /\ threads' = Goto(t, "test_completed")
    /\ UNCHANGED <<last, calls, resultFetches, reported, server>>

\* if self._status == JobStatus.COMPLETED: reads the shared field again
TestCompleted(t) ==
    /\ threads[t].pc = "test_completed"
    /\ threads' = Goto(t, IF job.status = COMPLETED
                          THEN "fetch_result" ELSE "done")
    /\ UNCHANGED <<job, last, calls, resultFetches, reported, server>>

\* self._connection.get_job_result(self.id), the value not yet stored
FetchResult(t) ==
    /\ threads[t].pc = "fetch_result"
    /\ \E resp \in OneShotResultResponses :
        LET r == get_job_result(job.connection, job.id, resp)
        IN  threads' = IF r.exc # "none"
                       THEN Goto(t, "done")
                       ELSE [threads EXCEPT ![t].pc = "write_result",
                                            ![t].result = r.ret]
    /\ resultFetches' = Bump(resultFetches, 1)
    /\ UNCHANGED <<job, last, calls, reported, server>>

\* self._result = <the result fetched>
WriteResult(t) ==
    /\ threads[t].pc = "write_result"
    /\ job' = [job EXCEPT !.result = threads[t].result]
    /\ threads' = Goto(t, "done")
    /\ UNCHANGED <<last, calls, resultFetches, reported, server>>

ConcNext ==
    \/ JobInit
    \/ \E t \in Threads : RefreshCheck(t)
    \/ \E t \in Threads : FetchStatus(t)
    \/ \E t \in Threads : WriteStatus(t)
    \/ \E t \in Threads : TestCompleted(t)
    \/ \E t \in Threads : FetchResult(t)
    \/ \E t \in Threads : WriteResult(t)

ConcSpec == Init /\ [][ConcNext]_vars

----------------------------------------------------------------------------
(* Properties *)

NonFinal == {OPEN, QUEUED}

\* the exchanges of the last operation whose request is req
Sent(req) == {i \in 1..Len(calls) : calls[i].req = req}

StatusRequest(id) == Request("GET", "/jobs/{}", id)
ResultRequest(id) == Request("GET", "/jobs/{}/result", id)
CancelRequest(id) == Request("PATCH", "/jobs/{}", id)

\* the exchanges of the last operation that went to the result endpoint
SentToResult == {i \in 1..Len(calls) : calls[i].req.path = "/jobs/{}/result"}

\* C1: a Job holds a result if and only if its status is Completed
C1_ResultIffCompleted ==
    job # NoJob => ((job.result # None) <=> (job.status = COMPLETED))

\* C2: once the status is final, no step changes the status or the result
C2_FinalIsFrozen ==
    [][(job # NoJob /\ is_final(job.status))
        => (job'.status = job.status /\ job'.result = job.result)]_vars

C2_Witness ==
    /\ last.op \in {"refresh", "cancel"}
    /\ is_final(last.pre.status)
    /\ job.status = COMPLETED
    /\ job.result # None

\* C3: refresh() of a non-final job sends exactly one status request; when
\* the status returned is Completed it sends exactly one result request, and
\* otherwise none
C3_RefreshRequests ==
    (last.op = "refresh" /\ last.pre.status \in NonFinal) =>
        /\ Cardinality(Sent(StatusRequest(last.pre.id))) = 1
        /\ calls[1].req = StatusRequest(last.pre.id)
        /\ IF calls[1].resp.status_code = HTTP_OK
               /\ calls[1].resp.status = COMPLETED
           THEN /\ Len(calls) = 2
                /\ calls[2].req = ResultRequest(last.pre.id)
           ELSE /\ Len(calls) = 1
                /\ SentToResult = {}

C3_Witness ==
    /\ last.op = "refresh"
    /\ last.pre.status \in NonFinal
    /\ Len(calls) = 2
    /\ calls[2].req = ResultRequest(job.id)
    /\ job.status = COMPLETED

\* C4: refresh() of a final job sends no request, raises nothing and leaves
\* the status and the result as they were
C4_RefreshFinalNoOp ==
    (last.op = "refresh" /\ is_final(last.pre.status)) =>
        /\ calls = <<>>
        /\ last.exc = "none"
        /\ job = last.pre

C4_Witness ==
    /\ last.op = "refresh"
    /\ is_final(last.pre.status)
    /\ job.status = CANCELLED

\* C5: refresh() of a final job raises InvalidJobOperationError
C5_RefreshFinalRaises ==
    (last.op = "refresh" /\ is_final(last.pre.status)) =>
        last.exc = "InvalidJobOperationError"

\* C6: cancel() of a non-final job sends exactly one PATCH for the job's id;
\* cancel() of a final job raises InvalidJobOperationError and sends nothing
C6_CancelRequests ==
    last.op = "cancel" =>
        IF is_final(last.pre.status)
        THEN /\ last.exc = "InvalidJobOperationError"
             /\ calls = <<>>
        ELSE /\ Len(calls) = 1
             /\ calls[1].req = CancelRequest(last.pre.id)
             /\ last.exc # "InvalidJobOperationError"

C6_Witness ==
    /\ last.op = "cancel"
    /\ is_final(last.pre.status)
    /\ last.exc = "InvalidJobOperationError"

\* C7: cancel() never changes the id, the status or the result, whether the
\* request succeeds, fails, or the call is rejected locally
C7_CancelKeepsJob ==
    last.op = "cancel" =>
        /\ job.id = last.pre.id
        /\ job.status = last.pre.status
        /\ job.result = last.pre.result

C7_Witness ==
    /\ last.op = "cancel"
    /\ last.exc = "none"
    /\ Len(calls) = 1
    /\ calls[1].resp.status_code = HTTP_NO_CONTENT
    /\ job.status = QUEUED

\* C8: reading result raises AttributeError for every status other than
\* Completed
C8_ResultRaisesUnlessCompleted ==
    (job # NoJob /\ job.status # COMPLETED) =>
        /\ result(job).exc = "AttributeError"
        /\ last.op = "result" => last.exc = "AttributeError"

C8_Witness ==
    /\ last.op = "result"
    /\ last.exc = "AttributeError"
    /\ job.status = FAILED

\* C9: after a refresh() that moved the job from a non-final status to
\* Completed, reading result returns the payload decoded from the response
\* of the result endpoint for the job's id
C9_ResultIsDecodedPayload ==
    (last.op = "refresh" /\ last.pre.status \in NonFinal
        /\ job.status = COMPLETED) =>
        /\ Len(calls) = 2
        /\ calls[2].req = ResultRequest(job.id)
        /\ result(job).exc = "none"
        /\ result(job).ret # None
        /\ result(job).ret.samples = NpLoad(calls[2].resp.content)

\* C10: a Job returned by get_job for which the server reports "complete"
\* has status Completed and a readable result holding samples
C10_GetJobCompleteHasResult ==
    (last.op = "get_job" /\ last.exc = "none"
        /\ calls[1].resp.status = COMPLETED) =>
        /\ job.status = COMPLETED
        /\ result(job).exc = "none"
        /\ result(job).ret # None

\* the Connection operations that talk to the job endpoints
ConnOps ==
    {"create_job", "get_job", "get_job_status", "get_job_result", "cancel_job"}

\* the one status code on which each operation succeeds
SuccessCode(op) ==
    CASE op = "create_job" -> 201
      [] op = "cancel_job" -> 204
      [] OTHER -> 200

\* the text each operation puts before the formatted error body
Prefix(op) ==
    CASE op = "create_job" -> "Failed to create job: "
      [] op = "get_job" -> "Failed to get job: "
      [] op = "get_job_status" -> "Failed to get job: "
      [] op = "get_job_result" -> "Failed to get job result: "
      [] op = "cancel_job" -> "Failed to cancel job: "

\* "{status_code} ({code}): {detail}" of the body the last operation
\* received, the empty string standing for a missing field
ErrorText ==
    LET body == calls[1].resp.error
    IN  (IF "status_code" \in DOMAIN body THEN "500" ELSE "") \o " ("
            \o (IF "code" \in DOMAIN body THEN "E1" ELSE "") \o "): "
            \o (IF "detail" \in DOMAIN body THEN "boom" ELSE "")

\* C11: each Connection operation succeeds exactly when the response has
\* its one success code (201 for create_job, 200 for get_job, get_job_status
\* and get_job_result, 204 for cancel_job) and raises RequestFailedError on
\* every other code
C11_OneSuccessCode ==
    last.op \in ConnOps =>
        LET code == calls[1].resp.status_code
        IN  /\ (last.exc = "none") <=> (code = SuccessCode(last.op))
            /\ (code # SuccessCode(last.op)) => last.exc = "RequestFailedError"

\* C12: ping() returns true exactly when the health endpoint answers 200
\* and returns false, raising nothing, for every other code
C12_PingIffOk ==
    last.op = "ping" =>
        /\ last.exc = "none"
        /\ last.ret = Boolean(calls[1].resp.status_code = 200)

C12_Witness ==
    /\ last.op = "ping"
    /\ last.ret = Boolean(FALSE)
    /\ calls[1].resp.status_code = 500

\* C13: the message of a RequestFailedError raised by a Connection call is
\* "{status_code} ({code}): {detail}" built from the error body
C13_MessageIsErrorText ==
    (last.op \in ConnOps /\ last.exc = "RequestFailedError") =>
        last.ret = Message(ErrorText)

\* C13 as amended: the message is the operation's own prefix followed by
\* "{status_code} ({code}): {detail}"
C13_MessageIsPrefixedErrorText ==
    (last.op \in ConnOps /\ last.exc = "RequestFailedError") =>
        last.ret = Message(Prefix(last.op) \o ErrorText)

C13_Witness ==
    /\ last.op = "create_job"
    /\ last.exc = "RequestFailedError"
    /\ calls[1].resp.status_code = 500
    /\ calls[1].resp.error = FullError
    /\ last.ret = Message("Failed to create job: 500 (E1): boom")

C15_ResultFetchedOnce ==
    /\ resultFetches <= 1
    /\ resultFetches = 1 => job.status = COMPLETED
    /\ (last.op \in {"refresh", "cancel"} /\ SentToResult # {}) =>
            /\ last.op = "refresh"
            /\ last.pre.status \in NonFinal
            /\ calls[1].req = StatusRequest(last.pre.id)
            /\ calls[1].resp.status = COMPLETED
            /\ job.status = COMPLETED
    /\ (last.op \in {"refresh", "cancel"} /\ is_final(last.pre.status)) =>
            SentToResult = {}

C15_Witness ==
    /\ resultFetches = 1
    /\ last.op = "refresh"
    /\ last.pre.status = COMPLETED
    /\ last.pre.result # None

\* C16: the status of a Job built by create_job or get_job is the status
\* the platform reported in the response that built it or in the latest
\* successful status fetch of refresh(); a Job built directly keeps the
\* status it was given until a status fetch succeeds
C16_StatusIsReported ==
    /\ (job # NoJob /\ reported # "none") => job.status = reported
    /\ (last.op \in {"create_job", "get_job"} /\ last.exc = "none") =>
            reported # "none"
    /\ (last.op \in {"refresh", "cancel"} /\ reported = "none") =>
            job.status = last.pre.status

C16_Witness ==
    /\ last.op = "refresh"
    /\ last.pre.status = QUEUED
    /\ last.pre.result = None
    /\ reported = FAILED
    /\ job.status = FAILED

\* C17: every Connection operation ends by returning its value or by
\* raising RequestFailedError, whatever the response
C17_OnlyRequestFailedError ==
    last.op \in ConnOps => last.exc \in {"none", "RequestFailedError"}

\* C18: a refresh() that raises leaves the status and the result of the Job
\* as they were before the call
C18_FailedRefreshKeepsJob ==
    (last.op = "refresh" /\ last.exc # "none") =>
        /\ job.status = last.pre.status
        /\ job.result = last.pre.result

\* the Job has caught up with the final status of the platform's job, holds
\* the result when that status is Completed, and its refresh() is a no-op
Settled ==
    /\ is_final(server)
    /\ job.status = server
    /\ job.status = COMPLETED => job.result # None
    /\ last.op = "refresh" => calls = <<>>

\* C19: when the platform's job reaches a final status and stays there and
\* the caller keeps calling refresh() with every request succeeding, the Job
\* eventually has that final status, with the result attached when it is
\* Completed, and from then on refresh() makes no request
C19_EventuallySettled ==
    <>[](job # NoJob => Settled)

\* C20: while two refresh() calls interleave, the status never goes from a
\* final status back to a non-final one and the result endpoint is requested
\* at most once
C20_InterleavedRefreshIsSafe ==
    /\ [](resultFetches <= 1)
    /\ [][(job # NoJob /\ is_final(job.status))
            => is_final(job'.status)]_vars

\* C20 as amended: each call requests the result endpoint at most once, so
\* at most twice in all; a call whose is_final check finds a final status
\* goes no further; and the status leaves a final status only through the
\* status write of a call that had passed its check before
C20_InterleavedRefreshPerCall ==
    /\ [](resultFetches <= 2)
    /\ [][\A t \in Threads :
            (threads[t].pc = "idle" /\ job # NoJob /\ is_final(job.status))
                => threads'[t].pc \in {"idle", "done"}]_vars
    /\ [][(job # NoJob /\ is_final(job.status) /\ ~is_final(job'.status))
            => \E t \in Threads :
                /\ threads[t].pc = "write_status"
                /\ threads'[t].pc = "test_completed"
                /\ job'.status = threads[t].status]_vars

C20_Witness ==
    /\ resultFetches = 2
    /\ \A t \in Threads : threads[t].pc = "done"
    /\ job.status = COMPLETED
    /\ job.result # None

====
